---- MODULE Spec2Model ----
(***************************************************************************)
(* GymBros friend graph: the users/{id}.friends arrays and the             *)
(* friendRequests collection of the document store, and the calls of       *)
(* src/firestore.js that read and write them.  A call is a chain of store  *)
(* accesses separated by awaits; each store access is one atomic step, so  *)
(* calls of different clients interleave at their awaits and a call that   *)
(* is interrupted, or whose store access fails, stops between two writes.  *)
(* Spec runs the exported calls one after the other (the contract of each  *)
(* call); ConcSpec runs the screen's calls of several clients interleaved. *)
(* Friend discovery: the friendCode and name fields of the users documents, *)
(* generateUniqueFriendCode followed by createUser (CodeSpec: signups of    *)
(* several users interleaved) and searchUserByNameAndCode, called directly  *)
(* or by the add-friend screen's handleSearch (SearchSpec).                 *)
(* Daily feed: the workouts and calorieEntries collections, the home        *)
(* screen's state and effects, subscribeToDailyWorkouts,                    *)
(* getDailyCaloriesForUsers and the friendsWithWorkouts aggregation         *)
(* (FeedSpec: one mount of the home screen over any stored records).        *)
(* Friends of a user: getUserFriends and the async snapshot handlers of    *)
(* subscribeToUserFriends (ListSpec: any viewer document, friends with or   *)
(* without a document).  MergeSpec: workouts logged while the batches'      *)
(* listeners report.  LiveSpec: the mounted home screen while the viewer's  *)
(* friends array changes, with handlers and calories fetches in flight.     *)
(***************************************************************************)
EXTENDS Integers, Sequences, FiniteSets

\* ---------------------------------------------------------------- bounds
MaxRequests == 2
NumClients == 2
\* the number of codes Math.random can draw (9000 in the code)
CodeSpan == 2
\* the documents of the workouts and of the calorieEntries collection
MaxWorkouts == 2
MaxCalorieEntries == 2

\* how many snapshot handlers of the friends listener, and how many calories
\* fetches, are in flight before the viewer's document changes again
MaxHandlers == 2
MaxFetches == 2
\* the ids of one 'in' query (30 in the code)
batchSize == 1

\* the user documents: two users, enough for every pair (a,b), (b,a), (a,a)
Users == {"u1", "u2"}
Clients == 1..NumClients
RequestIds == 1..MaxRequests
NoUser == "nobody"
NoRequest == 0

\* ------------------------------------------------- errors a call can throw
DuplicateRequest == "Friend request already sent"
AlreadyFriends == "Already friends"
NotFound == "Friend request not found"
StoreNotFound == "not-found"
TransientError == "store error"
\* errors of the specification's taxonomy that the calls of firestore.js never
\* throw: the screen refuses a search for oneself, the script a resolved request
SelfRequest == "SelfRequest"
AlreadyResolved == "AlreadyResolved"

VARIABLES
    friends,         \* friends[u]: the friends array of document users/u
    friendRequests,  \* the friendRequests collection, its documents in creation order
    pc,              \* pc[c]: the store access client c's call is waiting to make
    call,            \* call[c]: the frame of the call client c is running
    result,          \* result[c]: how client c's last call settled
    userDocs,        \* userDocs[u]: document users/u, its name and friendCode fields
    signup,          \* signup[u]: the code generation and createUser call of user u
    search,          \* the search call in flight or how the last one ended
    workoutDocs,     \* the workouts collection, its documents in creation order
    calorieDocs,     \* the calorieEntries collection
    home,            \* the state of the Home component
    subscription,    \* Home's subscribeToDailyWorkouts call: listeners, workoutBatches
    fetches,         \* the getDailyCaloriesForUsers calls in flight
    feed,            \* the memoized friendsWithWorkouts
    viewerDoc,       \* the user document of the user Home is mounted for
    handlers,        \* subscribeToUserFriends' snapshot handlers awaiting a query
    listing          \* the getUserFriends call in flight or how the last one ended

graphVars == <<friends, friendRequests, pc, call, result>>
discoveryVars == <<userDocs, signup, search>>
feedVars == <<workoutDocs, calorieDocs, home, subscription, fetches, feed>>
liveVars == <<viewerDoc, handlers, listing>>

vars == <<friends, friendRequests, pc, call, result, userDocs, signup, search,
          workoutDocs, calorieDocs, home, subscription, fetches, feed,
          viewerDoc, handlers, listing>>

NoCall == [op |-> "none", from |-> NoUser, to |-> NoUser, req |-> NoRequest]

\* the promise of a call that has not settled
NoResult == [op |-> "none", value |-> "none", ref |-> NoRequest]

Settled(opName, v) == [op |-> opName, value |-> v, ref |-> NoRequest]

Range(s) == {s[i] : i \in DOMAIN s}

\* Array.prototype.includes
Includes(arr, x) == x \in Range(arr)

\* an array update that appends the element whether or not it is held
arrayUnion_appends(arr, x) == Append(arr, x)

\* Firestore arrayUnion: appends the element unless the array already holds it
arrayUnion(arr, x) == IF Includes(arr, x) THEN arr ELSE Append(arr, x)

\* Firestore arrayRemove: removes every occurrence of the element
arrayRemove(arr, x) == SelectSeq(arr, LAMBDA y : y # x)

\* the existence query with its two user filters exchanged
PendingQuery_swapped(fromUserId, toUserId) ==
    {i \in DOMAIN friendRequests :
        /\ friendRequests[i].fromUserID = toUserId
        /\ friendRequests[i].toUserID = fromUserId
        /\ friendRequests[i].status = "pending"}

\* the documents matched by sendFriendRequest's existence query
PendingQuery(fromUserId, toUserId) ==
    {i \in DOMAIN friendRequests :
        /\ friendRequests[i].fromUserID = fromUserId
        /\ friendRequests[i].toUserID = toUserId
        /\ friendRequests[i].status = "pending"}

\* the listing query without its status filter
PendingRequestsQuery_anyStatus(userId) ==
    {i \in DOMAIN friendRequests : friendRequests[i].toUserID = userId}

\* the documents matched by subscribeToPendingFriendRequests' query: the
\* requests delivered to userId's pending listing
PendingRequestsQuery(userId) ==
    {i \in DOMAIN friendRequests :
        /\ friendRequests[i].toUserID = userId
        /\ friendRequests[i].status = "pending"}

\* addFriend(userId, friendId): one updateDoc with arrayUnion
addFriend(userId, friendId) ==
    [friends EXCEPT ![userId] = arrayUnion(@, friendId)]

\* removeFriend(userId, friendId): one updateDoc with arrayRemove
removeFriend(userId, friendId) ==
    [friends EXCEPT ![userId] = arrayRemove(@, friendId)]

\* updateDoc(doc(db, 'friendRequests', requestId), {status})
SetStatus(requestId, newStatus) ==
    [friendRequests EXCEPT ![requestId].status = newStatus]

\* the call of client c starts: its frame is set up, its promise is pending
Begin(c, opName, a, b, r, label) ==
    /\ pc[c] = "idle"
    /\ call' = [call EXCEPT ![c] = [op |-> opName, from |-> a, to |-> b, req |-> r]]
    /\ pc' = [pc EXCEPT ![c] = label]
    /\ result' = [result EXCEPT ![c] = NoResult]
    /\ UNCHANGED <<discoveryVars, feedVars, liveVars>>

\* the call of client c goes on to its next store access
Goto(c, label) ==
    /\ pc' = [pc EXCEPT ![c] = label]
    /\ UNCHANGED <<result, discoveryVars, feedVars, liveVars>>

\* the call of client c returns or throws: its frame is gone
Settle(c, res) ==
    /\ pc' = [pc EXCEPT ![c] = "idle"]
    /\ call' = [call EXCEPT ![c] = NoCall]
    /\ result' = [result EXCEPT ![c] = res]
    /\ UNCHANGED <<discoveryVars, feedVars, liveVars>>

\* ------------------------------------------------ strings, names, codes
\* A string is the sequence of its characters.
DigitChars == <<"0", "1", "2", "3", "4", "5", "6", "7", "8", "9">>

IsDigit(ch) == ch \in Range(DigitChars)

\* Number.prototype.toString: the decimal digits of n
RECURSIVE toString(_)
toString(n) ==
    IF n < 10 THEN <<DigitChars[n + 1]>>
    ELSE Append(toString(n \div 10), DigitChars[(n % 10) + 1])

\* the first code of the range: Math.floor(1000 + Math.random() * 9000)
FirstCode == 1000

\* the loop bound of generateUniqueFriendCode
maxAttempts == 100

\* the codes generateUniqueFriendCode can draw
DrawnCodes == {toString(FirstCode + k) : k \in 0..(CodeSpan - 1)}

Names == {<<"A", "l">>, <<"B", "o">>}

\* the user documents in the order of their ids, the order of a query's docs
UserIds == <<"u1", "u2">>

\* no document users/u
NoDoc == [exists |-> FALSE, name |-> <<>>, friendCode |-> <<>>]

UserDoc(n, code) == [exists |-> TRUE, name |-> n, friendCode |-> code]

\* the users of the friend graph: both signed up, with their names and codes
RegisteredUsers ==
    [u \in Users |->
        IF u = UserIds[1] THEN UserDoc(<<"A", "l">>, toString(FirstCode))
                          ELSE UserDoc(<<"B", "o">>, toString(FirstCode + 1))]

\* String.prototype.trim, for the blank character " "
RECURSIVE trim(_)
trim(str) ==
    IF str = <<>> THEN str
    ELSE IF Head(str) = " " THEN trim(Tail(str))
    ELSE IF str[Len(str)] = " " THEN trim(SubSeq(str, 1, Len(str) - 1))
    ELSE str

\* String.prototype.split("#"): the parts between the separators
RECURSIVE split(_)
split(str) ==
    IF \A i \in DOMAIN str : str[i] # "#" THEN <<str>>
    ELSE LET k == CHOOSE i \in DOMAIN str :
                     str[i] = "#" /\ \A j \in 1..(i - 1) : str[j] # "#"
         IN  <<SubSeq(str, 1, k - 1)>> \o split(SubSeq(str, k + 1, Len(str)))

\* handleSearch's format test: code.length !== 4 || !/^\d{4}$/.test(code)
IsFourDigitCode(code) ==
    Len(code) = 4 /\ \A i \in DOMAIN code : IsDigit(code[i])

\* a friendCode argument that was not passed
Undefined == <<"undefined">>

\* what the signup and search calls throw or show
CodeSpaceExhausted == "Unable to generate unique friend code"
InvalidData == "Unsupported field value: undefined"
InvalidCodeFormat == "InvalidCodeFormat"
InvalidFormat == "Invalid Format"
InputRequired == "Input Required"
UserNotFound == "User Not Found"
CannotAddYourself == "You cannot add yourself as a friend"
NameRequired == "Name Required"
InvalidName == "Invalid Name"

\* the code strings a search is called with: well-formed and malformed ones
SearchCodes ==
    DrawnCodes \cup {<<>>, <<"1", "0", "0">>, <<"1", "0", "0", "0", "0">>,
                     <<"1", "0", "0", "x">>, <<"x", "y", "z", "w">>}

\* what is typed into the search field
SearchInputs ==
    {n \o <<"#">> \o c : n \in Names \cup {<<>>}, c \in SearchCodes}
    \cup {<<>>, <<" ">>, <<"A", "l">>,
          <<"A", "l", "#", "1", "0", "0", "0", "#", "1">>,
          <<" ", "A", "l", "#", "1", "0", "0", "0", " ">>}

\* what is typed into the name field of the profile setup
SetupNames == Names \cup {<<>>, <<" ">>, <<"A">>}

NoSignup == [pc |-> "idle", i |-> 0, code |-> <<>>, result |-> "none"]

NoSearch == [pc |-> "idle", caller |-> "none", viewer |-> NoUser, name |-> <<>>,
             code |-> <<>>, queried |-> FALSE, result |-> "none"]

\* no signup and no search is running
DiscoveryIdle ==
    /\ signup = [u \in Users |-> NoSignup]
    /\ search = NoSearch

\* ------------------------------------------------- the feed's records
\* Times in milliseconds, scaled to three instants: 0 is yesterday, 1 the
\* first and 2 the last instant of today.
Times == 0..2

\* getTodayDateRange(): setHours(0, 0, 0, 0) and setHours(23, 59, 59, 999)
startOfDay == 1
endOfDay == 2

\* createCalorieEntry sets the date of an entry to the start of its day
DayStarts == {0, 1}

\* what createWorkout is called with: a logged workout, and the 'Stats Only'
\* workout that saving a stat creates with completed = false
WorkoutKinds ==
    {[muscleGroup |-> "Chest", completed |-> TRUE],
     [muscleGroup |-> "Stats Only", completed |-> FALSE]}

WorkoutValues ==
    {[userID |-> u, date |-> t, muscleGroup |-> k.muscleGroup,
      completed |-> k.completed] : u \in Users, t \in Times, k \in WorkoutKinds}

CalorieValues ==
    {[userID |-> u, date |-> t, amount |-> 100] : u \in Users, t \in DayStarts}

\* the sequences over S of at most n elements
SeqsUpTo(S, n) == UNION {[1..k -> S] : k \in 0..n}

\* the empty object {}
EmptyObject == <<>>

\* Home before its first render's effects: useState's initial values
NoHome == [friends |-> <<>>, workouts |-> <<>>, caloriesByUser |-> EmptyObject,
           loading |-> TRUE, error |-> "null"]

\* no listener registered
NoSubscription == [listeners |-> <<>>, workoutBatches |-> <<>>]

\* the home screen not mounted, over empty collections
FeedIdle ==
    /\ workoutDocs = <<>>
    /\ calorieDocs = <<>>
    /\ home = NoHome
    /\ subscription = NoSubscription
    /\ fetches = <<>>
    /\ feed = <<>>

\* no document users/<viewer>
NoViewerDoc == [exists |-> FALSE, friends |-> <<>>]

\* no getUserFriends call made
NoListing == [pc |-> "idle", friendIds |-> <<>>, result |-> "none", value |-> <<>>]

\* no friends listener, no getUserFriends call
LiveIdle ==
    /\ viewerDoc = NoViewerDoc
    /\ handlers = <<>>
    /\ listing = NoListing

\* the friend graph before any request
GraphInit ==
    /\ friends = [u \in Users |-> <<>>]
    /\ friendRequests = <<>>
    /\ pc = [c \in Clients |-> "idle"]
    /\ call = [c \in Clients |-> NoCall]
    /\ result = [c \in Clients |-> NoResult]

Init ==
    /\ GraphInit
    /\ userDocs = RegisteredUsers
    /\ DiscoveryIdle
    /\ FeedIdle
    /\ LiveIdle

\* ------------------------------------------------------ sendFriendRequest
CallSendFriendRequest(c, fromUserId, toUserId) ==
    /\ Begin(c, "sendFriendRequest", fromUserId, toUserId, NoRequest, "send_query")
    /\ UNCHANGED <<friends, friendRequests>>

SendQuery(c) ==
    /\ pc[c] = "send_query"
    /\ IF PendingQuery(call[c].from, call[c].to) # {}
          THEN Settle(c, Settled("sendFriendRequest", DuplicateRequest))
          ELSE Goto(c, "send_getUser") /\ UNCHANGED call
    /\ UNCHANGED <<friends, friendRequests>>

\* the already-friends test made on the recipient's friends array
SendGetUser_recipientList(c) ==
    /\ pc[c] = "send_getUser"
    /\ IF Includes(friends[call[c].to], call[c].from)
          THEN Settle(c, Settled("sendFriendRequest", AlreadyFriends))
          ELSE Goto(c, "send_addDoc") /\ UNCHANGED call
    /\ UNCHANGED <<friends, friendRequests>>

SendGetUser(c) ==
    /\ pc[c] = "send_getUser"
    /\ IF Includes(friends[call[c].from], call[c].to)
          THEN Settle(c, Settled("sendFriendRequest", AlreadyFriends))
          ELSE Goto(c, "send_addDoc") /\ UNCHANGED call
    /\ UNCHANGED <<friends, friendRequests>>

SendAddDoc(c) ==
    /\ pc[c] = "send_addDoc"
    /\ Len(friendRequests) < MaxRequests
    /\ friendRequests' = Append(friendRequests,
                            [fromUserID |-> call[c].from,
                             toUserID |-> call[c].to,
                             status |-> "pending"])
    /\ Settle(c, [op |-> "sendFriendRequest", value |-> "ok",
                  ref |-> Len(friendRequests) + 1])
    /\ UNCHANGED friends

\* ---------------------------------------------------- acceptFriendRequest
CallAcceptFriendRequest(c, requestId) ==
    /\ Begin(c, "acceptFriendRequest", NoUser, NoUser, requestId, "accept_getDoc")
    /\ UNCHANGED <<friends, friendRequests>>

\* an accept that takes the link for made when the sender already lists the
\* recipient, and goes on to the status update
AcceptGetDoc_skipsWhenListed(c) ==
    /\ pc[c] = "accept_getDoc"
    /\ IF call[c].req \notin DOMAIN friendRequests
          THEN Settle(c, Settled("acceptFriendRequest", NotFound))
          ELSE /\ call' = [call EXCEPT
                             ![c].from = friendRequests[call[c].req].fromUserID,
                             ![c].to = friendRequests[call[c].req].toUserID]
               /\ IF Includes(friends[friendRequests[call[c].req].fromUserID],
                              friendRequests[call[c].req].toUserID)
                     THEN Goto(c, "accept_updateDoc")
                     ELSE Goto(c, "accept_addFriend1")
    /\ UNCHANGED <<friends, friendRequests>>

AcceptGetDoc(c) ==
    /\ pc[c] = "accept_getDoc"
    /\ IF call[c].req \notin DOMAIN friendRequests
          THEN Settle(c, Settled("acceptFriendRequest", NotFound))
          ELSE /\ call' = [call EXCEPT
                             ![c].from = friendRequests[call[c].req].fromUserID,
                             ![c].to = friendRequests[call[c].req].toUserID]
               /\ Goto(c, "accept_addFriend1")
    /\ UNCHANGED <<friends, friendRequests>>

AcceptAddFriend1(c) ==
    /\ pc[c] = "accept_addFriend1"
    /\ friends' = addFriend(call[c].from, call[c].to)
    /\ Goto(c, "accept_addFriend2")
    /\ UNCHANGED <<friendRequests, call>>

\* the second addFriend repeating the arguments of the first
AcceptAddFriend2_sameArgs(c) ==
    /\ pc[c] = "accept_addFriend2"
    /\ friends' = addFriend(call[c].from, call[c].to)
    /\ Goto(c, "accept_updateDoc")
    /\ UNCHANGED <<friendRequests, call>>

AcceptAddFriend2(c) ==
    /\ pc[c] = "accept_addFriend2"
    /\ friends' = addFriend(call[c].to, call[c].from)
    /\ Goto(c, "accept_updateDoc")
    /\ UNCHANGED <<friendRequests, call>>

AcceptUpdateDoc(c) ==
    /\ pc[c] = "accept_updateDoc"
    /\ friendRequests' = SetStatus(call[c].req, "accepted")
    /\ Settle(c, Settled("acceptFriendRequest", "ok"))
    /\ UNCHANGED friends

\* ---------------------------------------------------- rejectFriendRequest
CallRejectFriendRequest(c, requestId) ==
    /\ Begin(c, "rejectFriendRequest", NoUser, NoUser, requestId, "reject_updateDoc")
    /\ UNCHANGED <<friends, friendRequests>>

\* a reject that also takes the sender out of the recipient's friends array
RejectUpdateDoc_unfriends(c) ==
    /\ pc[c] = "reject_updateDoc"
    /\ IF call[c].req \notin DOMAIN friendRequests
          THEN /\ Settle(c, Settled("rejectFriendRequest", StoreNotFound))
               /\ UNCHANGED <<friendRequests, friends>>
          ELSE /\ friendRequests' = SetStatus(call[c].req, "rejected")
               /\ friends' = removeFriend(friendRequests[call[c].req].toUserID,
                                          friendRequests[call[c].req].fromUserID)
               /\ Settle(c, Settled("rejectFriendRequest", "ok"))

\* updateDoc rejects with the store's not-found error when the document is missing
RejectUpdateDoc(c) ==
    /\ pc[c] = "reject_updateDoc"
    /\ IF call[c].req \notin DOMAIN friendRequests
          THEN /\ Settle(c, Settled("rejectFriendRequest", StoreNotFound))
               /\ UNCHANGED friendRequests
          ELSE /\ friendRequests' = SetStatus(call[c].req, "rejected")
               /\ Settle(c, Settled("rejectFriendRequest", "ok"))
    /\ UNCHANGED friends

\* ------------------------------------------------- addFriend, removeFriend
CallAddFriend(c, userId, friendId) ==
    /\ Begin(c, "addFriend", userId, friendId, NoRequest, "addFriend_updateDoc")
    /\ UNCHANGED <<friends, friendRequests>>

AddFriendUpdateDoc(c) ==
    /\ pc[c] = "addFriend_updateDoc"
    /\ friends' = addFriend(call[c].from, call[c].to)
    /\ Settle(c, Settled("addFriend", "ok"))
    /\ UNCHANGED friendRequests

CallRemoveFriend(c, userId, friendId) ==
    /\ Begin(c, "removeFriend", userId, friendId, NoRequest, "removeFriend_updateDoc")
    /\ UNCHANGED <<friends, friendRequests>>

RemoveFriendUpdateDoc(c) ==
    /\ pc[c] = "removeFriend_updateDoc"
    /\ friends' = removeFriend(call[c].from, call[c].to)
    /\ Settle(c, Settled("removeFriend", "ok"))
    /\ UNCHANGED friendRequests

\* ------------------------------------------- store failure, interruption
\* a failure of accept's second friend write that undoes the first write
StoreFails_rollsBack(c) ==
    /\ pc[c] # "idle"
    /\ Settle(c, Settled(call[c].op, TransientError))
    /\ friends' = IF pc[c] = "accept_addFriend2"
                     THEN removeFriend(call[c].from, call[c].to)
                     ELSE friends
    /\ UNCHANGED friendRequests

\* The store access an in-flight call is waiting on rejects, or the client
\* dies while waiting: the catch block rethrows, nothing after the await runs.
StoreFails(c) ==
    /\ pc[c] # "idle"
    /\ Settle(c, Settled(call[c].op, TransientError))
    /\ UNCHANGED <<friends, friendRequests>>

\* the calls the add-friend screen makes
AppStep(c) ==
    \/ \E a, b \in Users : CallSendFriendRequest(c, a, b)
    \/ SendQuery(c)
    \/ SendGetUser(c)
    \/ SendAddDoc(c)
    \/ \E r \in RequestIds : CallAcceptFriendRequest(c, r)
    \/ AcceptGetDoc(c)
    \/ AcceptAddFriend1(c)
    \/ AcceptAddFriend2(c)
    \/ AcceptUpdateDoc(c)
    \/ \E r \in RequestIds : CallRejectFriendRequest(c, r)
    \/ RejectUpdateDoc(c)
    \/ StoreFails(c)

\* every exported call of the friend graph
LibStep(c) ==
    \/ AppStep(c)
    \/ \E a, b \in Users : CallAddFriend(c, a, b)
    \/ AddFriendUpdateDoc(c)
    \/ \E a, b \in Users : CallRemoveFriend(c, a, b)
    \/ RemoveFriendUpdateDoc(c)

\* One caller: any sequence of the exported calls, each running to its end,
\* or to the failure of one of its store accesses, before the next starts.
Caller == CHOOSE c \in Clients : \A d \in Clients : c <= d

Next == LibStep(Caller)

Spec == Init /\ [][Next]_vars

\* Several clients running the screen's calls, interleaved at their awaits.
ConcNext == \E c \in Clients : AppStep(c)

ConcSpec == Init /\ [][ConcNext]_vars

\* ------------------------------------------------ generateUniqueFriendCode
\* the users query where('friendCode', '==', code) finds a document
CodeHeld(code) ==
    \E v \in Users : userDocs[v].exists /\ userDocs[v].friendCode = code

\* the first iteration: a code is drawn and the users query is sent
CallGenerateUniqueFriendCode(u) ==
    /\ signup[u].pc = "idle"
    /\ \E code \in DrawnCodes :
          signup' = [signup EXCEPT ![u] =
                        [pc |-> "gen_getDocs", i |-> 0, code |-> code,
                         result |-> "none"]]
    /\ UNCHANGED <<graphVars, userDocs, search, feedVars, liveVars>>

\* a generation that returns the code it drew without looking at the answer
GenGetDocs_unchecked(u) ==
    /\ signup[u].pc = "gen_getDocs"
    /\ signup' = [signup EXCEPT ![u].pc = "createUser_setDoc"]
    /\ UNCHANGED <<graphVars, userDocs, search, feedVars, liveVars>>

\* a generation whose loop makes one attempt more
GenGetDocs_oneMore(u) ==
    /\ signup[u].pc = "gen_getDocs"
    /\ IF ~CodeHeld(signup[u].code)
          THEN signup' = [signup EXCEPT ![u].pc = "createUser_setDoc"]
          ELSE IF signup[u].i < maxAttempts
             THEN \E code \in DrawnCodes :
                     signup' = [signup EXCEPT ![u].i = @ + 1, ![u].code = code]
             ELSE signup' = [signup EXCEPT ![u] =
                                [NoSignup EXCEPT !.result = CodeSpaceExhausted]]
    /\ UNCHANGED <<graphVars, userDocs, search, feedVars, liveVars>>

\* the answer of the users query: the code is returned when no document holds
\* it; otherwise the next iteration draws again, and the loop ends by throwing
GenGetDocs(u) ==
    /\ signup[u].pc = "gen_getDocs"
    /\ IF ~CodeHeld(signup[u].code)
          THEN signup' = [signup EXCEPT ![u].pc = "createUser_setDoc"]
          ELSE IF signup[u].i + 1 < maxAttempts
             THEN \E code \in DrawnCodes :
                     signup' = [signup EXCEPT ![u].i = @ + 1, ![u].code = code]
             ELSE signup' = [signup EXCEPT ![u] =
                                [NoSignup EXCEPT !.result = CodeSpaceExhausted]]
    /\ UNCHANGED <<graphVars, userDocs, search, feedVars, liveVars>>

\* -------------------------------------------------------------- createUser
\* createUser(userId, name, profilePicURL, friendCode): one setDoc that writes
\* the whole document, friends: [] included.  The store's client refuses a
\* field whose value is undefined and throws before anything is written.
createUser(userId, n, friendCode) ==
    IF friendCode = Undefined
       THEN /\ signup' = [signup EXCEPT ![userId] =
                             [NoSignup EXCEPT !.result = InvalidData]]
            /\ UNCHANGED <<userDocs, friends>>
       ELSE /\ userDocs' = [userDocs EXCEPT ![userId] = UserDoc(n, friendCode)]
            /\ friends' = [friends EXCEPT ![userId] = <<>>]
            /\ signup' = [signup EXCEPT ![userId] =
                             [NoSignup EXCEPT !.result = "ok"]]

\* the signup goes on with the user's name and the code that was returned
CreateUserSetDoc(u) ==
    /\ signup[u].pc = "createUser_setDoc"
    /\ createUser(u, RegisteredUsers[u].name, signup[u].code)
    /\ UNCHANGED <<friendRequests, pc, call, result, search, feedVars, liveVars>>

\* handleCompleteSetup of the profile setup screen: createUser is called with
\* three arguments, its friendCode parameter is undefined
HandleCompleteSetup(u, n) ==
    /\ signup[u].pc = "idle"
    /\ IF trim(n) = <<>>
          THEN /\ signup' = [signup EXCEPT ![u] =
                                [NoSignup EXCEPT !.result = NameRequired]]
               /\ UNCHANGED <<userDocs, friends>>
          ELSE IF Len(trim(n)) < 2
             THEN /\ signup' = [signup EXCEPT ![u] =
                                   [NoSignup EXCEPT !.result = InvalidName]]
                  /\ UNCHANGED <<userDocs, friends>>
             ELSE createUser(u, trim(n), Undefined)
    /\ UNCHANGED <<friendRequests, pc, call, result, search, feedVars, liveVars>>

\* the users query or the setDoc rejects, or the signup is abandoned
SignupStoreFails(u) ==
    /\ signup[u].pc # "idle"
    /\ signup' = [signup EXCEPT ![u] = [NoSignup EXCEPT !.result = TransientError]]
    /\ UNCHANGED <<graphVars, userDocs, search, feedVars, liveVars>>

\* Signups of the users, interleaved at their awaits; no document at first.
CodeInit ==
    /\ GraphInit
    /\ userDocs = [u \in Users |-> NoDoc]
    /\ DiscoveryIdle
    /\ FeedIdle
    /\ LiveIdle

SignupStep(u) ==
    \/ CallGenerateUniqueFriendCode(u)
    \/ GenGetDocs(u)
    \/ CreateUserSetDoc(u)
    \/ \E n \in SetupNames : HandleCompleteSetup(u, n)
    \/ SignupStoreFails(u)

CodeNext == \E u \in Users : SignupStep(u)

CodeSpec == CodeInit /\ [][CodeNext]_vars

\* Signups one after the other: the contract of a generation that runs alone,
\* over the documents earlier signups have left.  The store answers every
\* query it is sent, with documents or with an error.
Alone(u) == \A v \in Users \ {u} : signup[v].pc = "idle"

SignupNext ==
    \E u \in Users :
        \/ Alone(u) /\ CallGenerateUniqueFriendCode(u)
        \/ Alone(u) /\ GenGetDocs(u)
        \/ Alone(u) /\ CreateUserSetDoc(u)
        \/ Alone(u) /\ \E n \in SetupNames : HandleCompleteSetup(u, n)
        \/ Alone(u) /\ SignupStoreFails(u)

SignupSpec ==
    /\ CodeInit
    /\ [][SignupNext]_vars
    /\ \A u \in Users : WF_vars(GenGetDocs(u) \/ SignupStoreFails(u))

\* ------------------------------------------------- searchUserByNameAndCode
\* the documents matched by where('name', '==', name) and
\* where('friendCode', '==', friendCode), as positions in the order of ids
SearchQuery(n, friendCode) ==
    {k \in DOMAIN UserIds :
        /\ userDocs[UserIds[k]].exists
        /\ userDocs[UserIds[k]].name = n
        /\ userDocs[UserIds[k]].friendCode = friendCode}

\* querySnapshot.docs[0], or null when the snapshot is empty
FirstMatch(n, friendCode) ==
    IF SearchQuery(n, friendCode) = {} THEN "null"
    ELSE UserIds[CHOOSE k \in SearchQuery(n, friendCode) :
                    \A j \in SearchQuery(n, friendCode) : k <= j]

\* searchUserByNameAndCode(name, friendCode) called with any two strings
CallSearchUserByNameAndCode(n, friendCode) ==
    /\ search.pc = "idle"
    /\ search' = [pc |-> "search_getDocs", caller |-> "direct", viewer |-> NoUser,
                  name |-> n, code |-> friendCode, queried |-> FALSE,
                  result |-> "none"]
    /\ UNCHANGED <<graphVars, userDocs, signup, feedVars, liveVars>>

\* handleSearch of the add-friend screen, viewer being the signed-in user
HandleSearch(viewer, searchInput) ==
    /\ search.pc = "idle"
    /\ IF trim(searchInput) = <<>>
          THEN search' = [NoSearch EXCEPT !.result = InputRequired]
          ELSE LET parts == split(trim(searchInput))
               IN  IF Len(parts) # 2
                      THEN search' = [NoSearch EXCEPT !.result = InvalidFormat]
                      ELSE IF trim(parts[1]) = <<>> \/ ~IsFourDigitCode(parts[2])
                         THEN search' = [NoSearch EXCEPT !.result = InvalidFormat]
                         ELSE search' = [pc |-> "search_getDocs",
                                         caller |-> "screen", viewer |-> viewer,
                                         name |-> trim(parts[1]),
                                         code |-> parts[2], queried |-> FALSE,
                                         result |-> "none"]
    /\ UNCHANGED <<graphVars, userDocs, signup, feedVars, liveVars>>

\* the answer of the users query, and what the caller makes of it
SearchGetDocs ==
    /\ search.pc = "search_getDocs"
    /\ LET foundUser == FirstMatch(search.name, search.code)
       IN  search' = [NoSearch EXCEPT
                         !.queried = TRUE,
                         !.result = IF search.caller = "direct" THEN foundUser
                                    ELSE IF foundUser = "null" THEN UserNotFound
                                    ELSE IF foundUser = search.viewer
                                       THEN CannotAddYourself
                                    ELSE foundUser]
    /\ UNCHANGED <<graphVars, userDocs, signup, feedVars, liveVars>>

\* the users query rejects
SearchStoreFails ==
    /\ search.pc = "search_getDocs"
    /\ search' = [NoSearch EXCEPT !.queried = TRUE, !.result = TransientError]
    /\ UNCHANGED <<graphVars, userDocs, signup, feedVars, liveVars>>

\* Searches over any users collection the signups can have left.
SearchInit ==
    /\ GraphInit
    /\ userDocs \in [Users -> {NoDoc} \cup {UserDoc(n, code) :
                                             n \in Names, code \in DrawnCodes}]
    /\ DiscoveryIdle
    /\ FeedIdle
    /\ LiveIdle

SearchNext ==
    \/ \E n \in Names, friendCode \in SearchCodes :
          CallSearchUserByNameAndCode(n, friendCode)
    \/ \E viewer \in Users, searchInput \in SearchInputs :
          HandleSearch(viewer, searchInput)
    \/ SearchGetDocs
    \/ SearchStoreFails

SearchSpec == SearchInit /\ [][SearchNext]_vars

\* ---------------------------------------------------------- the daily feed
\* a slice that takes the element at its end index too
slice_inclusive(arr, a, b) ==
    SubSeq(arr, a + 1, IF b + 1 < Len(arr) THEN b + 1 ELSE Len(arr))

\* Array.prototype.slice(a, b)
slice(arr, a, b) == SubSeq(arr, a + 1, IF b < Len(arr) THEN b ELSE Len(arr))

\* querySnapshot.docs.map(doc => ({id: doc.id, ...doc.data()})): the documents
\* of the workouts collection with their ids
WorkoutsWithIds ==
    [k \in DOMAIN workoutDocs |->
        [id |-> k, userID |-> workoutDocs[k].userID, date |-> workoutDocs[k].date,
         muscleGroup |-> workoutDocs[k].muscleGroup,
         completed |-> workoutDocs[k].completed]]

\* a query's documents in the order of their date field
RECURSIVE OrderByDate(_, _)
OrderByDate(docs, t) ==
    IF t \notin Times THEN <<>>
    ELSE SelectSeq(docs, LAMBDA d : d.date = t) \o OrderByDate(docs, t + 1)

\* subscribeToDailyWorkouts' query of one batch: userID in batch,
\* date >= startOfDay, date <= endOfDay
WorkoutsQuery(batch) ==
    OrderByDate(SelectSeq(WorkoutsWithIds,
                          LAMBDA d : /\ Includes(batch, d.userID)
                                     /\ d.date >= startOfDay
                                     /\ d.date <= endOfDay), 0)

\* getDailyCaloriesForUsers' query of one batch (userID in batch,
\* date >= startOfDay) and its filter entry.date <= endOfDay
CaloriesQuery(batch) ==
    SelectSeq(OrderByDate(SelectSeq(calorieDocs,
                                    LAMBDA d : /\ Includes(batch, d.userID)
                                               /\ d.date >= startOfDay), 0),
              LAMBDA d : d.date <= endOfDay)

\* the batches of the loop for (i = 0; i < userIds.length; i += batchSize)
Batches(userIds) ==
    [k \in 1..((Len(userIds) + batchSize - 1) \div batchSize) |->
        [batchIndex |-> (k - 1) * batchSize,
         batch |-> slice(userIds, (k - 1) * batchSize, (k - 1) * batchSize + batchSize)]]

\* subscribeToDailyWorkouts(userIds, callback) up to its return: for no ids the
\* callback is called with [] and no listener is registered, otherwise one
\* listener per batch is registered and the callback waits for a snapshot
subscribeToDailyWorkouts(userIds) ==
    IF Len(userIds) = 0
       THEN [called |-> TRUE, workouts |-> <<>>, listeners |-> <<>>]
       ELSE [called |-> FALSE, workouts |-> <<>>, listeners |-> Batches(userIds)]

\* getDailyCaloriesForUsers(userIds) up to its first await: for no ids it
\* returns {} at once, otherwise the first batch's query is sent
getDailyCaloriesForUsers(userIds) ==
    IF Len(userIds) = 0
       THEN [settled |-> TRUE, value |-> EmptyObject,
             frame |-> [userIds |-> userIds, i |-> 0, allEntries |-> <<>>]]
       ELSE [settled |-> FALSE, value |-> EmptyObject,
             frame |-> [userIds |-> userIds, i |-> 0, allEntries |-> <<>>]]

\* a merge by arrival: every snapshot is added after the ones before it
MapSet_appends(map, key, value) ==
    Append(map, [batchIndex |-> key, workouts |-> value])

\* Map.prototype.set: replaces the value of a key the map holds, otherwise
\* adds the key after the others
MapSet(map, key, value) ==
    IF \E j \in DOMAIN map : map[j].batchIndex = key
       THEN [j \in DOMAIN map |->
                IF map[j].batchIndex = key
                   THEN [batchIndex |-> key, workouts |-> value] ELSE map[j]]
       ELSE Append(map, [batchIndex |-> key, workouts |-> value])

\* Array.from(workoutBatches.values()).flat()
RECURSIVE Flat(_)
Flat(map) ==
    IF map = <<>> THEN <<>> ELSE Head(map).workouts \o Flat(Tail(map))

\* a forEach that keeps the last amount of a user instead of adding it
RECURSIVE Aggregate_overwrites(_)
Aggregate_overwrites(entries) ==
    IF entries = <<>> THEN EmptyObject
    ELSE LET rest == Aggregate_overwrites(SubSeq(entries, 1, Len(entries) - 1))
             last == entries[Len(entries)]
         IN  [u \in DOMAIN rest \cup {last.userID} |->
                 IF u = last.userID THEN last.amount ELSE rest[u]]

\* the forEach that adds up the entries' amounts by user
RECURSIVE Aggregate(_)
Aggregate(entries) ==
    IF entries = <<>> THEN EmptyObject
    ELSE LET rest == Aggregate(SubSeq(entries, 1, Len(entries) - 1))
             last == entries[Len(entries)]
         IN  [u \in DOMAIN rest \cup {last.userID} |->
                 (IF u \in DOMAIN rest THEN rest[u] ELSE 0)
                 + (IF u = last.userID THEN last.amount ELSE 0)]

\* [...new Set(list)]: the list without repetitions, first occurrences kept
RECURSIVE Distinct(_)
Distinct(list) ==
    IF list = <<>> THEN <<>>
    ELSE LET init == Distinct(SubSeq(list, 1, Len(list) - 1))
         IN  IF Includes(init, list[Len(list)]) THEN init
             ELSE Append(init, list[Len(list)])

\* the latest of the dates: workoutTimes sorted descending, its first element
MostRecent(dates) ==
    CHOOSE t \in Range(dates) : \A x \in Range(dates) : x <= t

\* the order of the characters in names
Alphabet == <<" ", "A", "B", "l", "o">>

CharRank(ch) == CHOOSE k \in DOMAIN Alphabet : Alphabet[k] = ch

\* String.prototype.localeCompare: negative, zero or positive
RECURSIVE localeCompare(_, _)
localeCompare(a, b) ==
    IF a = <<>> /\ b = <<>> THEN 0
    ELSE IF a = <<>> THEN -1
    ELSE IF b = <<>> THEN 1
    ELSE IF CharRank(Head(a)) < CharRank(Head(b)) THEN -1
    ELSE IF CharRank(Head(a)) > CharRank(Head(b)) THEN 1
    ELSE localeCompare(Tail(a), Tail(b))

\* a comparator that puts the oldest workout first among the active friends
compareEntries_oldestFirst(a, b) ==
    IF a.workedOutToday /\ ~b.workedOutToday THEN -1
    ELSE IF ~a.workedOutToday /\ b.workedOutToday THEN 1
    ELSE IF a.workedOutToday /\ b.workedOutToday
       THEN IF a.lastWorkoutTime = <<>> THEN 1
            ELSE IF b.lastWorkoutTime = <<>> THEN -1
            ELSE a.lastWorkoutTime[1] - b.lastWorkoutTime[1]
    ELSE localeCompare(a.name, b.name)

\* the comparator of the feed's sort; a Date is <<t>>, null is <<>>
compareEntries(a, b) ==
    IF a.workedOutToday /\ ~b.workedOutToday THEN -1
    ELSE IF ~a.workedOutToday /\ b.workedOutToday THEN 1
    ELSE IF a.workedOutToday /\ b.workedOutToday
       THEN IF a.lastWorkoutTime = <<>> THEN 1
            ELSE IF b.lastWorkoutTime = <<>> THEN -1
            ELSE b.lastWorkoutTime[1] - a.lastWorkoutTime[1]
    ELSE localeCompare(a.name, b.name)

\* Array.prototype.sort(compareEntries): a stable sort, by insertion
RECURSIVE sort(_)
sort(arr) ==
    IF arr = <<>> THEN <<>>
    ELSE LET init == sort(SubSeq(arr, 1, Len(arr) - 1))
             x == arr[Len(arr)]
             k == Cardinality({j \in DOMAIN init :
                                 \A m \in 1..j : compareEntries(init[m], x) <= 0})
         IN  SubSeq(init, 1, k) \o <<x>> \o SubSeq(init, k + 1, Len(init))

\* caloriesByUser[friend.userID] || 0
CaloriesOf(calories, userId) ==
    IF userId \in DOMAIN calories THEN calories[userId] ELSE 0

\* an aggregation that leaves out the friends without a workout
friendsWithWorkouts_activeOnly(friendList, workoutList, calories) ==
    LET active == SelectSeq(friendList,
                     LAMBDA f : \E k \in DOMAIN workoutList :
                                   workoutList[k].userID = f.userID)
    IN  sort([k \in DOMAIN active |->
                [userID |-> active[k].userID, name |-> active[k].name,
                 friendCode |-> active[k].friendCode, workedOutToday |-> TRUE,
                 totalCalories |-> CaloriesOf(calories, active[k].userID),
                 muscleGroups |-> <<>>, lastWorkoutTime |-> <<>>]])

\* an aggregation that counts a friend as active for completed workouts only
friendsWithWorkouts_completedOnly(friendList, workoutList, calories) ==
    sort([k \in DOMAIN friendList |->
            LET friend == friendList[k]
                done == SelectSeq(workoutList,
                           LAMBDA w : w.userID = friend.userID /\ w.completed)
            IN  [userID |-> friend.userID, name |-> friend.name,
                 friendCode |-> friend.friendCode,
                 workedOutToday |-> done # <<>>,
                 totalCalories |-> CaloriesOf(calories, friend.userID),
                 muscleGroups |-> <<>>,
                 lastWorkoutTime |-> IF done = <<>> THEN <<>>
                    ELSE <<MostRecent([j \in DOMAIN done |-> done[j].date])>>]])

\* the useMemo of Home: one entry per friend, then the sort
friendsWithWorkouts(friendList, workoutList, calories) ==
    sort([k \in DOMAIN friendList |->
            LET friend == friendList[k]
                friendWorkouts == SelectSeq(workoutList,
                                     LAMBDA w : w.userID = friend.userID)
            IN  IF Len(friendWorkouts) = 0
                   THEN [userID |-> friend.userID, name |-> friend.name,
                         friendCode |-> friend.friendCode,
                         workedOutToday |-> FALSE,
                         totalCalories |-> CaloriesOf(calories, friend.userID),
                         muscleGroups |-> <<>>,
                         lastWorkoutTime |-> <<>>]
                   ELSE [userID |-> friend.userID, name |-> friend.name,
                         friendCode |-> friend.friendCode,
                         workedOutToday |-> TRUE,
                         totalCalories |-> CaloriesOf(calories, friend.userID),
                         muscleGroups |->
                            Distinct(SelectSeq(
                               [j \in DOMAIN friendWorkouts |->
                                   friendWorkouts[j].muscleGroup],
                               LAMBDA g : g \notin {"", " "})),
                         lastWorkoutTime |->
                            <<MostRecent([j \in DOMAIN friendWorkouts |->
                                             friendWorkouts[j].date])>>]])

\* the render that follows a change of Home's state
Render == feed' = friendsWithWorkouts(home'.friends, home'.workouts,
                                      home'.caloriesByUser)

\* the friend lists subscribeToUserFriends delivers: the user documents of
\* the ids of a friends array
FriendIdLists ==
    {ids \in SeqsUpTo(Users, Cardinality(Users)) :
        \A i, j \in DOMAIN ids : ids[i] = ids[j] => i = j}

FriendObjects(ids) ==
    [k \in DOMAIN ids |->
        [userID |-> ids[k], name |-> userDocs[ids[k]].name,
         friendCode |-> userDocs[ids[k]].friendCode]]

\* a Home that starts the calories fetch also for an empty friends list
FriendsSnapshot_fetchesAnyway(ids) ==
    LET friendIds == ids
        sub == subscribeToDailyWorkouts(friendIds)
        got == getDailyCaloriesForUsers(friendIds)
    IN  /\ home.loading
        /\ home' = [home EXCEPT
                       !.friends = FriendObjects(ids),
                       !.loading = FALSE,
                       !.workouts = IF Len(ids) = 0 THEN <<>> ELSE @]
        /\ subscription' = [listeners |-> sub.listeners, workoutBatches |-> <<>>]
        /\ fetches' = Append(fetches, got.frame)
        /\ Render
        /\ UNCHANGED <<graphVars, discoveryVars, workoutDocs, calorieDocs, liveVars>>

\* a Home whose workouts effect has no cleanup: the listeners of the last
\* subscription stay registered next to the new ones
FriendsCallback_keepsListeners(friendsData) ==
    LET friendIds == [k \in DOMAIN friendsData |-> friendsData[k].userID]
        sub == subscribeToDailyWorkouts(friendIds)
        got == getDailyCaloriesForUsers(friendIds)
    IN  /\ home' = [home EXCEPT
                       !.friends = friendsData,
                       !.loading = FALSE,
                       !.workouts = IF Len(friendsData) = 0 THEN <<>> ELSE @,
                       !.caloriesByUser = IF Len(friendsData) = 0 THEN EmptyObject
                                          ELSE @]
        /\ subscription' = [listeners |-> sub.listeners \o subscription.listeners,
                            workoutBatches |-> <<>>]
        /\ fetches' = IF Len(friendsData) = 0 THEN fetches
                      ELSE Append(fetches, got.frame)
        /\ Render
        /\ UNCHANGED <<graphVars, discoveryVars, workoutDocs, calorieDocs>>

\* Home's callback of subscribeToUserFriends and what follows it: setFriends
\* and setLoading(false); after the render the two effects on [friends] run:
\* the cleanup of the last workouts effect unsubscribes its listeners, then an
\* empty list sets workouts to [] and caloriesByUser to {}, any other list
\* subscribes to the friends' workouts and starts the calories fetch.
FriendsCallback(friendsData) ==
    LET friendIds == [k \in DOMAIN friendsData |-> friendsData[k].userID]
        sub == subscribeToDailyWorkouts(friendIds)
        got == getDailyCaloriesForUsers(friendIds)
    IN  /\ home' = [home EXCEPT
                       !.friends = friendsData,
                       !.loading = FALSE,
                       !.workouts = IF Len(friendsData) = 0 THEN <<>>
                                    ELSE IF sub.called THEN sub.workouts ELSE @,
                       !.caloriesByUser = IF Len(friendsData) = 0 THEN EmptyObject
                                          ELSE IF got.settled THEN got.value ELSE @]
        /\ subscription' = IF Len(friendsData) = 0 THEN NoSubscription
                           ELSE [listeners |-> sub.listeners,
                                 workoutBatches |-> <<>>]
        /\ fetches' = IF Len(friendsData) = 0 \/ got.settled THEN fetches
                      ELSE Append(fetches, got.frame)
        /\ Render
        /\ UNCHANGED <<graphVars, discoveryVars, workoutDocs, calorieDocs>>

\* the first list the friends listener delivers after mounting
FriendsSnapshot(ids) ==
    /\ home.loading
    /\ FriendsCallback(FriendObjects(ids))
    /\ UNCHANGED liveVars

\* the snapshot handler of listener k: its batch is stored under its index,
\* all batches are merged and given to the callback, setWorkouts
WorkoutsSnapshot(k) ==
    /\ k \in DOMAIN subscription.listeners
    /\ LET l == subscription.listeners[k]
           merged == MapSet(subscription.workoutBatches, l.batchIndex,
                            WorkoutsQuery(l.batch))
       IN  /\ subscription' = [subscription EXCEPT !.workoutBatches = merged]
           /\ home' = [home EXCEPT !.workouts = Flat(merged)]
    /\ Render
    /\ UNCHANGED <<graphVars, discoveryVars, workoutDocs, calorieDocs, fetches,
                   liveVars>>

\* the error handler of listener k: Home's error callback
WorkoutsError(k) ==
    /\ k \in DOMAIN subscription.listeners
    /\ home' = [home EXCEPT !.error = "Failed to load workouts"]
    /\ Render
    /\ UNCHANGED <<graphVars, discoveryVars, workoutDocs, calorieDocs,
                   subscription, fetches, liveVars>>

\* the answer to the query of fetch f's current batch: its entries are kept;
\* after the last batch the totals are returned and setCaloriesByUser is called
CaloriesGetDocs(f) ==
    /\ f \in DOMAIN fetches
    /\ LET frame == fetches[f]
           batch == slice(frame.userIds, frame.i, frame.i + batchSize)
           entries == frame.allEntries \o CaloriesQuery(batch)
       IN  IF frame.i + batchSize < Len(frame.userIds)
              THEN /\ fetches' = [fetches EXCEPT ![f].i = @ + batchSize,
                                                 ![f].allEntries = entries]
                   /\ UNCHANGED home
              ELSE /\ fetches' = SubSeq(fetches, 1, f - 1)
                                 \o SubSeq(fetches, f + 1, Len(fetches))
                   /\ home' = [home EXCEPT !.caloriesByUser = Aggregate(entries)]
    /\ Render
    /\ UNCHANGED <<graphVars, discoveryVars, workoutDocs, calorieDocs, subscription,
                   liveVars>>

\* the query of fetch f rejects: the call rethrows, fetchCalories logs it
CaloriesFail(f) ==
    /\ f \in DOMAIN fetches
    /\ fetches' = SubSeq(fetches, 1, f - 1) \o SubSeq(fetches, f + 1, Len(fetches))
    /\ UNCHANGED <<graphVars, discoveryVars, workoutDocs, calorieDocs, home,
                   subscription, feed, liveVars>>

\* One mount of the home screen, over any records the two collections can
\* hold: the friends list arrives, the listeners and the fetch report.
FeedInit ==
    /\ GraphInit
    /\ userDocs = RegisteredUsers
    /\ DiscoveryIdle
    /\ workoutDocs \in SeqsUpTo(WorkoutValues, MaxWorkouts)
    /\ calorieDocs \in SeqsUpTo(CalorieValues, MaxCalorieEntries)
    /\ home = NoHome
    /\ subscription = NoSubscription
    /\ fetches = <<>>
    /\ feed = <<>>
    /\ LiveIdle

FeedNext ==
    \/ \E ids \in FriendIdLists : FriendsSnapshot(ids)
    \/ \E k \in 1..Cardinality(Users) : WorkoutsSnapshot(k)
    \/ \E k \in 1..Cardinality(Users) : WorkoutsError(k)
    \/ \E f \in 1..Cardinality(Users) : CaloriesGetDocs(f)
    \/ \E f \in 1..Cardinality(Users) : CaloriesFail(f)

FeedSpec == FeedInit /\ [][FeedNext]_vars

\* ------------------------------------------------ the friends of a user
\* the documents a query `userID in batch` on users matches, in the order of
\* their ids: doc.data() of every existing document of the batch
UsersQuery(batch) ==
    FriendObjects(SelectSeq(UserIds,
                            LAMBDA u : userDocs[u].exists /\ Includes(batch, u)))

\* subscribeToUserFriends' snapshot handler up to its first await, for a
\* snapshot of the viewer's document: a missing document and an empty friends
\* array call back with [] at once, otherwise the first batch's query is sent
UserDocSnapshot(doc) ==
    /\ viewerDoc' = doc
    /\ IF ~doc.exists \/ Len(doc.friends) = 0
          THEN /\ FriendsCallback(<<>>)
               /\ UNCHANGED handlers
          ELSE /\ handlers' = Append(handlers, [friendIds |-> doc.friends, i |-> 0,
                                                allFriends |-> <<>>])
               /\ UNCHANGED <<graphVars, discoveryVars, feedVars>>
    /\ UNCHANGED listing

\* the answer to the query of handler h's current batch: the documents are
\* kept; after the last batch the handler calls back with all of them
HandlerGetDocs(h) ==
    /\ h \in DOMAIN handlers
    /\ LET frame == handlers[h]
           batch == slice(frame.friendIds, frame.i, frame.i + batchSize)
           allFriends == frame.allFriends \o UsersQuery(batch)
       IN  IF frame.i + batchSize < Len(frame.friendIds)
              THEN /\ handlers' = [handlers EXCEPT ![h].i = @ + batchSize,
                                                   ![h].allFriends = allFriends]
                   /\ UNCHANGED <<graphVars, discoveryVars, feedVars>>
              ELSE /\ handlers' = SubSeq(handlers, 1, h - 1)
                                  \o SubSeq(handlers, h + 1, Len(handlers))
                   /\ FriendsCallback(allFriends)
    /\ UNCHANGED <<viewerDoc, listing>>

\* the query of handler h rejects: the async handler's promise rejects, no
\* callback is called
HandlerFails(h) ==
    /\ h \in DOMAIN handlers
    /\ handlers' = SubSeq(handlers, 1, h - 1)
                   \o SubSeq(handlers, h + 1, Len(handlers))
    /\ UNCHANGED <<graphVars, discoveryVars, feedVars, viewerDoc, listing>>

\* ------------------------------------------------------- getUserFriends
CallGetUserFriends ==
    /\ listing.pc = "idle"
    /\ listing' = [pc |-> "getUser", friendIds |-> <<>>, result |-> "none",
                   value |-> <<>>]
    /\ UNCHANGED <<graphVars, discoveryVars, feedVars, viewerDoc, handlers>>

\* a listing that fails when the user has no document
ListGetUser_failsWhenMissing ==
    /\ listing.pc = "getUser"
    /\ listing' = IF ~viewerDoc.exists
                     THEN [pc |-> "idle", friendIds |-> <<>>, result |-> NotFound,
                           value |-> <<>>]
                     ELSE IF Len(viewerDoc.friends) = 0
                     THEN [pc |-> "idle", friendIds |-> <<>>, result |-> "ok",
                           value |-> <<>>]
                     ELSE [pc |-> "getFriends", friendIds |-> viewerDoc.friends,
                           result |-> "none", value |-> <<>>]
    /\ UNCHANGED <<graphVars, discoveryVars, feedVars, viewerDoc, handlers>>

\* getUser(userId) answers: no user, or a user without friends, returns []
ListGetUser ==
    /\ listing.pc = "getUser"
    /\ listing' = IF ~viewerDoc.exists \/ Len(viewerDoc.friends) = 0
                     THEN [pc |-> "idle", friendIds |-> <<>>, result |-> "ok",
                           value |-> <<>>]
                     ELSE [pc |-> "getFriends", friendIds |-> viewerDoc.friends,
                           result |-> "none", value |-> <<>>]
    /\ UNCHANGED <<graphVars, discoveryVars, feedVars, viewerDoc, handlers>>

\* Promise.all of getUser(friendId) answers: the friends that are not null
ListGetFriends ==
    /\ listing.pc = "getFriends"
    /\ listing' = [pc |-> "idle", friendIds |-> <<>>, result |-> "ok",
                   value |-> FriendObjects(SelectSeq(listing.friendIds,
                                              LAMBDA u : userDocs[u].exists))]
    /\ UNCHANGED <<graphVars, discoveryVars, feedVars, viewerDoc, handlers>>

\* a getUser of the call rejects: the catch block rethrows
ListFails ==
    /\ listing.pc # "idle"
    /\ listing' = [pc |-> "idle", friendIds |-> <<>>, result |-> TransientError,
                   value |-> <<>>]
    /\ UNCHANGED <<graphVars, discoveryVars, feedVars, viewerDoc, handlers>>

\* the documents users/<viewer> can be
ViewerDocs ==
    {NoViewerDoc} \cup {[exists |-> TRUE, friends |-> ids] : ids \in FriendIdLists}

\* the first snapshot the friends listener gets: the document as it is
InitialSnapshot ==
    /\ home.loading
    /\ handlers = <<>>
    /\ UserDocSnapshot(viewerDoc)

\* Listing the friends of a user, by the listener of Home and by
\* getUserFriends, over any viewer document and any friends with or without
\* a document of their own.
ListInit ==
    /\ GraphInit
    /\ userDocs \in [Users -> {NoDoc} \cup {RegisteredUsers[u] : u \in Users}]
    /\ \A u \in Users : userDocs[u] \in {NoDoc, RegisteredUsers[u]}
    /\ DiscoveryIdle
    /\ FeedIdle
    /\ viewerDoc \in ViewerDocs
    /\ handlers = <<>>
    /\ listing = NoListing

ListNext ==
    \/ InitialSnapshot
    \/ \E h \in 1..MaxHandlers : HandlerGetDocs(h)
    \/ \E h \in 1..MaxHandlers : HandlerFails(h)
    \/ CallGetUserFriends
    \/ ListGetUser
    \/ ListGetFriends
    \/ ListFails

ListSpec == ListInit /\ [][ListNext]_vars

\* ---------------------------------------------------- the mounted screen
\* the workouts logged while the screen is mounted
LiveWorkouts ==
    {w \in WorkoutValues : w.date >= startOfDay /\ w.date <= endOfDay /\ w.completed}

\* createWorkout: a document is added to the workouts collection
CreateWorkout(w) ==
    /\ Len(workoutDocs) < MaxWorkouts
    /\ workoutDocs' = Append(workoutDocs, w)
    /\ UNCHANGED <<graphVars, discoveryVars, calorieDocs, home, subscription,
                   fetches, feed, liveVars>>

\* the viewer's document is written (a friend added or removed) and the
\* friends listener gets its snapshot
ViewerDocChanges(doc) ==
    /\ Len(handlers) < MaxHandlers
    /\ Len(fetches) < MaxFetches
    /\ UserDocSnapshot(doc)

\* Home mounted over empty collections: the friends list arrives, workouts
\* are logged, the listeners of the batches report in any order.
MergeInit ==
    /\ GraphInit
    /\ userDocs = RegisteredUsers
    /\ DiscoveryIdle
    /\ FeedIdle
    /\ LiveIdle

MergeNext ==
    \/ \E ids \in FriendIdLists : FriendsSnapshot(ids)
    \/ \E w \in LiveWorkouts : CreateWorkout(w)
    \/ \E k \in 1..Cardinality(Users) : WorkoutsSnapshot(k)

MergeSpec == MergeInit /\ [][MergeNext]_vars

\* Home mounted for a user without friends, each possible friend with one
\* workout and one calorie entry of today; friends come and go.
LiveInit ==
    /\ GraphInit
    /\ userDocs = RegisteredUsers
    /\ DiscoveryIdle
    /\ workoutDocs = [k \in DOMAIN UserIds |->
                         [userID |-> UserIds[k], date |-> startOfDay,
                          muscleGroup |-> "Chest", completed |-> TRUE]]
    /\ calorieDocs = [k \in DOMAIN UserIds |->
                         [userID |-> UserIds[k], date |-> startOfDay, amount |-> 100]]
    /\ home = NoHome
    /\ subscription = NoSubscription
    /\ fetches = <<>>
    /\ feed = <<>>
    /\ viewerDoc = [exists |-> TRUE, friends |-> <<>>]
    /\ handlers = <<>>
    /\ listing = NoListing

LiveNext ==
    \/ \E ids \in FriendIdLists : ViewerDocChanges([exists |-> TRUE, friends |-> ids])
    \/ \E h \in 1..MaxHandlers : HandlerGetDocs(h)
    \/ \E k \in 1..Cardinality(Users) : WorkoutsSnapshot(k)
    \/ \E f \in 1..(MaxFetches + MaxHandlers) : CaloriesGetDocs(f)

LiveSpec == LiveInit /\ [][LiveNext]_vars

\* ======================================================= properties
\* a pending request from a to b is stored
HasPending(a, b) ==
    \E i \in DOMAIN friendRequests :
        /\ friendRequests[i].fromUserID = a
        /\ friendRequests[i].toUserID = b
        /\ friendRequests[i].status = "pending"

\* this step ends client c's call with an outcome of the call's own logic
\* (a value or a domain error), not with a failure of the store
SettlesHere(c) ==
    /\ pc[c] # "idle"
    /\ pc'[c] = "idle"
    /\ result'[c].value # TransientError

\* this step is the store access client c's call was waiting to make
AccessHere(c, label) ==
    /\ pc[c] = label
    /\ pc'[c] # label
    /\ result'[c].value # TransientError

\* C1: when acceptFriendRequest succeeds on a request from `from` to `to`,
\* `to` is in friends(from) and `from` is in friends(to).
C1_AcceptLinksBothWays ==
    [][\A c \in Clients :
          (call[c].op = "acceptFriendRequest" /\ SettlesHere(c)
               /\ result'[c].value = "ok")
          => LET r == friendRequests[call[c].req]
             IN  /\ Includes(friends'[r.fromUserID], r.toUserID)
                 /\ Includes(friends'[r.toUserID], r.fromUserID)]_vars

C1_Witness ==
    /\ result[Caller] = Settled("acceptFriendRequest", "ok")
    /\ \E i \in DOMAIN friendRequests :
          /\ friendRequests[i].status = "accepted"
          /\ friendRequests[i].fromUserID # friendRequests[i].toUserID
          /\ Includes(friends[friendRequests[i].fromUserID], friendRequests[i].toUserID)
          /\ Includes(friends[friendRequests[i].toUserID], friendRequests[i].fromUserID)

\* C2: the friend relation is symmetric, also after an acceptFriendRequest
\* was interrupted or failed between its two friend-set updates.  Stated
\* for the states in which no call is in flight.
C2_SymmetricWhenNoCallRuns ==
    (\A c \in Clients : pc[c] = "idle")
    => \A a, b \in Users : Includes(friends[a], b) => Includes(friends[b], a)

\* C3: at most one pending request is stored for an ordered
\* (sender, recipient) pair, whatever the interleaving of the calls.
\* Stated for the pairs of two different users.
C3_AtMostOnePending ==
    \A i, j \in DOMAIN friendRequests :
        (/\ friendRequests[i].fromUserID # friendRequests[i].toUserID
         /\ friendRequests[i].status = "pending"
         /\ friendRequests[j].status = "pending"
         /\ friendRequests[i].fromUserID = friendRequests[j].fromUserID
         /\ friendRequests[i].toUserID = friendRequests[j].toUserID)
        => i = j

\* C4: sendFriendRequest(a,b) right after a successful sendFriendRequest(a,b):
\* the request the first call created is still pending when the second call
\* starts, and a call whose existence query finds a pending a->b request
\* fails with DuplicateRequest and stores nothing.
C4_SecondSendIsDuplicate ==
    [][\A c \in Clients :
          /\ (/\ pc[c] = "idle"
              /\ pc'[c] = "send_query"
              /\ result[c].op = "sendFriendRequest"
              /\ result[c].value = "ok"
              /\ friendRequests[result[c].ref].fromUserID = call'[c].from
              /\ friendRequests[result[c].ref].toUserID = call'[c].to)
             => (/\ friendRequests'[result[c].ref].status = "pending"
                 /\ Len(friendRequests') = result[c].ref)
          /\ (AccessHere(c, "send_query") /\ HasPending(call[c].from, call[c].to))
             => (/\ pc'[c] = "idle"
                 /\ result'[c].value = DuplicateRequest
                 /\ friendRequests' = friendRequests)]_vars

C4_Witness ==
    /\ result[Caller] = Settled("sendFriendRequest", DuplicateRequest)
    /\ Len(friendRequests) = 1
    /\ friendRequests[1].status = "pending"

\* C5: sendFriendRequest(a,a) always fails with SelfRequest and stores no
\* request.
C5_SelfRequestFails ==
    [][\A c \in Clients :
          (/\ call[c].op = "sendFriendRequest"
           /\ call[c].from = call[c].to
           /\ SettlesHere(c))
          => (/\ result'[c].value = SelfRequest
              /\ friendRequests' = friendRequests)]_vars

C7_AcceptResolvedFails ==
    [][\A c \in Clients :
          (/\ AccessHere(c, "accept_getDoc")
           /\ call[c].req \in DOMAIN friendRequests
           /\ friendRequests[call[c].req].fromUserID
                 # friendRequests[call[c].req].toUserID
           /\ friendRequests[call[c].req].status # "pending")
          => (/\ pc'[c] = "idle"
              /\ result'[c].value = AlreadyResolved
              /\ UNCHANGED <<friends, friendRequests>>)]_vars

\* C8: rejectFriendRequest fails with NotFound when the request does not
\* exist and with AlreadyResolved when it is not pending, and leaves the
\* request's status as it was in both cases.  The second case is stated for
\* the requests between two different users.
C8_RejectPreconditions ==
    [][\A c \in Clients :
          (call[c].op = "rejectFriendRequest" /\ SettlesHere(c))
          => /\ (call[c].req \notin DOMAIN friendRequests)
                => (/\ result'[c].value \in {NotFound, StoreNotFound}
                    /\ friendRequests' = friendRequests)
             /\ (/\ call[c].req \in DOMAIN friendRequests
                 /\ friendRequests[call[c].req].fromUserID
                       # friendRequests[call[c].req].toUserID
                 /\ friendRequests[call[c].req].status # "pending")
                => (/\ result'[c].value = AlreadyResolved
                    /\ friendRequests' = friendRequests)]_vars

\* C9: a request whose status is accepted or rejected keeps that status.
\* Stated for the requests between two different users.
C9_ResolvedIsTerminal ==
    [][\A i \in DOMAIN friendRequests :
          (/\ friendRequests[i].fromUserID # friendRequests[i].toUserID
           /\ friendRequests[i].status \in {"accepted", "rejected"})
          => friendRequests'[i].status = friendRequests[i].status]_vars

\* C10: rejectFriendRequest on a pending request sets that request's status
\* to rejected and changes no friend set and no other request.
C10_RejectFrame ==
    [][\A c \in Clients :
          (/\ call[c].op = "rejectFriendRequest"
           /\ SettlesHere(c)
           /\ call[c].req \in DOMAIN friendRequests
           /\ friendRequests[call[c].req].status = "pending")
          => (/\ result'[c].value = "ok"
              /\ friends' = friends
              /\ DOMAIN friendRequests' = DOMAIN friendRequests
              /\ \A i \in DOMAIN friendRequests :
                    friendRequests'[i] =
                       IF i = call[c].req
                          THEN [fromUserID |-> friendRequests[i].fromUserID,
                                toUserID |-> friendRequests[i].toUserID,
                                status |-> "rejected"]
                          ELSE friendRequests[i])]_vars

C10_Witness ==
    /\ result[Caller] = Settled("rejectFriendRequest", "ok")
    /\ Len(friendRequests) = 2
    /\ friendRequests[1].status = "rejected"
    /\ friendRequests[2].status = "pending"
    /\ \E u \in Users : friends[u] # <<>>

\* C11: when acceptFriendRequest's second friend-set write fails after the
\* first succeeded, the call throws the failure to its caller, the first
\* write stays (friends(from) holds `to`), and the request keeps its status:
\* a pending request stays pending, it is not marked accepted.
C11_SecondWriteFailureSurfaces ==
    [][\A c \in Clients :
          (pc[c] = "accept_addFriend2" /\ pc'[c] = "idle")
          => (/\ result'[c].op = "acceptFriendRequest"
              /\ result'[c].value = TransientError
              /\ Includes(friends'[call[c].from], call[c].to)
              /\ friends' = friends
              /\ friendRequests' = friendRequests
              /\ (friendRequests[call[c].req].status = "pending"
                    => friendRequests'[call[c].req].status = "pending"))]_vars

C11_Witness ==
    /\ result[Caller].op = "acceptFriendRequest"
    /\ result[Caller].value = TransientError
    /\ Len(friendRequests) = 1
    /\ friendRequests[1].status = "pending"
    /\ friendRequests[1].fromUserID # friendRequests[1].toUserID
    /\ friends[friendRequests[1].fromUserID] = <<friendRequests[1].toUserID>>
    /\ friends[friendRequests[1].toUserID] = <<>>

\* C12: no friends array holds the same id twice, after any sequence of
\* addFriend and acceptFriendRequest calls: adding an id the array already
\* holds changes nothing and is not an error.
C12_NoDuplicateFriendIds ==
    \A u \in Users : \A i, j \in DOMAIN friends[u] :
        friends[u][i] = friends[u][j] => i = j

\* two requests between the same two users, one in each direction, both
\* accepted: the second accept found each user in the other's array
C12_Witness ==
    /\ result[Caller] = Settled("acceptFriendRequest", "ok")
    /\ Len(friendRequests) = 2
    /\ friendRequests[1].status = "accepted"
    /\ friendRequests[2].status = "accepted"
    /\ friendRequests[1].fromUserID = friendRequests[2].toUserID
    /\ friendRequests[1].toUserID = friendRequests[2].fromUserID
    /\ friendRequests[1].fromUserID # friendRequests[1].toUserID
    /\ \A u \in Users : Len(friends[u]) = 1

\* a rejected request from a to b is stored
HasRejected(a, b) ==
    \E i \in DOMAIN friendRequests :
        /\ friendRequests[i].fromUserID = a
        /\ friendRequests[i].toUserID = b
        /\ friendRequests[i].status = "rejected"

\* C13: reject-then-resend.  With the request R1 from a to b rejected (and
\* neither of sendFriendRequest's two failure conditions met: no pending
\* a->b request, b not in a's friends array), sendFriendRequest(a,b) succeeds
\* and stores a new pending request; R1 and every other stored request stay
\* as they were, and b's pending listing holds the new request and no
\* rejected one.
C13_RejectThenResend ==
    [][\A c \in Clients :
          (/\ call[c].op = "sendFriendRequest"
           /\ SettlesHere(c)
           /\ HasRejected(call[c].from, call[c].to)
           /\ ~HasPending(call[c].from, call[c].to)
           /\ ~Includes(friends[call[c].from], call[c].to))
          => (/\ result'[c].value = "ok"
              /\ result'[c].ref = Len(friendRequests) + 1
              /\ Len(friendRequests') = Len(friendRequests) + 1
              /\ friendRequests'[result'[c].ref] =
                    [fromUserID |-> call[c].from, toUserID |-> call[c].to,
                     status |-> "pending"]
              /\ \A i \in DOMAIN friendRequests :
                    friendRequests'[i] = friendRequests[i]
              /\ \A b \in Users :
                    b = call[c].to
                    => /\ result'[c].ref \in PendingRequestsQuery(b)'
                       /\ \A i \in PendingRequestsQuery(b)' :
                             friendRequests'[i].status # "rejected")]_vars

C13_Witness ==
    /\ result[Caller].op = "sendFriendRequest"
    /\ result[Caller].value = "ok"
    /\ result[Caller].ref = 2
    /\ Len(friendRequests) = 2
    /\ friendRequests[1].status = "rejected"
    /\ friendRequests[2].status = "pending"
    /\ friendRequests[1].fromUserID = friendRequests[2].fromUserID
    /\ friendRequests[1].toUserID = friendRequests[2].toUserID
    /\ friendRequests[1].fromUserID # friendRequests[1].toUserID
    /\ PendingRequestsQuery(friendRequests[2].toUserID) = {2}

\* ---------------------------------------------------- friend discovery
\* str is a string of exactly four decimal digits
FourDigits(str) ==
    /\ Len(str) = 4
    /\ \A i \in 1..Len(str) :
          str[i] \in {"0", "1", "2", "3", "4", "5", "6", "7", "8", "9"}

\* a user document holds the code
HeldByAUser(code) ==
    \E v \in Users : userDocs[v].exists /\ userDocs[v].friendCode = code

\* this step is the answer to the users query of u's code generation
AnsweredHere(u) ==
    /\ signup[u].pc = "gen_getDocs"
    /\ signup'[u] # signup[u]
    /\ signup'[u].result # TransientError

\* C14: the code generateUniqueFriendCode returns is held by no user
\* document at the time of the uniqueness check that lets it through,
\* whatever generations and createUser calls came before.
C14_ReturnedCodeIsFree ==
    [][\A u \in Users :
          (AnsweredHere(u) /\ signup'[u].pc = "createUser_setDoc")
          => (/\ signup'[u].code = signup[u].code
              /\ ~HeldByAUser(signup[u].code))]_vars

\* u's generation returned a code after at least one of its draws collided
\* with the code of the other user's document
C14_Witness ==
    \E u, v \in Users :
        /\ u # v
        /\ signup[u].pc = "createUser_setDoc"
        /\ signup[u].i > 0
        /\ userDocs[v].exists
        /\ userDocs[v].friendCode # signup[u].code

\* C15: every user document holds a friend code of four digits, and no two
\* user documents hold the same code, however the signups interleave.
C15_CodesWellFormedAndUnique ==
    /\ \A u \in Users : userDocs[u].exists => FourDigits(userDocs[u].friendCode)
    /\ \A u, v \in Users :
          (u # v /\ userDocs[u].exists /\ userDocs[v].exists)
          => userDocs[u].friendCode # userDocs[v].friendCode

\* C16: generateUniqueFriendCode makes at most 100 draw-and-check attempts,
\* each draw a four-digit code from 1000 on; the answer to an attempt's query
\* returns the drawn code when no user holds it, goes on to the next attempt
\* when one does and fewer than 100 were made, and throws CodeSpaceExhausted
\* when the 100th attempt collides.  Every generation whose queries are
\* answered therefore ends.
C16_BoundedAttempts ==
    /\ [][\A u \in Users :
             /\ signup'[u].pc = "gen_getDocs"
                => (/\ signup'[u].i < 100
                    /\ FourDigits(signup'[u].code)
                    /\ signup'[u].code[1] # "0")
             /\ AnsweredHere(u)
                => IF ~HeldByAUser(signup[u].code)
                      THEN /\ signup'[u].pc = "createUser_setDoc"
                           /\ signup'[u].code = signup[u].code
                      ELSE IF signup[u].i + 1 < 100
                         THEN /\ signup'[u].pc = "gen_getDocs"
                              /\ signup'[u].i = signup[u].i + 1
                         ELSE /\ signup'[u].pc = "idle"
                              /\ signup'[u].result = CodeSpaceExhausted]_vars
    /\ \A u \in Users :
          (signup[u].pc = "gen_getDocs") ~> (signup[u].pc # "gen_getDocs")

\* every code is held, and a generation has ended by throwing
C16_Witness ==
    /\ \A code \in DrawnCodes : HeldByAUser(code)
    /\ \E u \in Users : signup[u].result = CodeSpaceExhausted

\* C17: searchUserByNameAndCode(name, code) called with a code that is not
\* exactly four digits fails with InvalidCodeFormat and sends no query to
\* the store.
C17_MalformedCodeIsRefused ==
    [][(/\ search.pc = "search_getDocs"
        /\ search.caller = "direct"
        /\ ~FourDigits(search.code)
        /\ search'.pc = "idle"
        /\ search'.result # TransientError)
       => (/\ search'.result = InvalidCodeFormat
           /\ ~search'.queried)]_vars

\* the delivered workouts of a user: the records Home holds for the user
DeliveredTo(userId) ==
    {j \in DOMAIN home.workouts : home.workouts[j].userID = userId}

\* the feed's entries of a user
EntriesOf(userId) == {k \in DOMAIN feed : feed[k].userID = userId}

\* C18: once the friends list has arrived empty, the feed is empty, no
\* workouts listener is registered and no calories fetch is in flight, the
\* workouts are [] and the calories {}; subscribeToDailyWorkouts of no ids
\* calls back with [] and registers no listener, getDailyCaloriesForUsers of
\* no ids returns {} without a query.
C18_EmptyFriendsNoQueries ==
    /\ (~home.loading /\ home.friends = <<>>) =>
          /\ feed = <<>>
          /\ subscription.listeners = <<>>
          /\ fetches = <<>>
          /\ home.workouts = <<>>
          /\ home.caloriesByUser = EmptyObject
    /\ subscribeToDailyWorkouts(<<>>).called
    /\ subscribeToDailyWorkouts(<<>>).workouts = <<>>
    /\ subscribeToDailyWorkouts(<<>>).listeners = <<>>
    /\ getDailyCaloriesForUsers(<<>>).settled
    /\ getDailyCaloriesForUsers(<<>>).value = EmptyObject

\* the friends list arrived empty while both collections hold records of today
C18_Witness ==
    /\ ~home.loading
    /\ home.friends = <<>>
    /\ feed = <<>>
    /\ \E k \in DOMAIN workoutDocs : workoutDocs[k].date = startOfDay
    /\ \E k \in DOMAIN calorieDocs : calorieDocs[k].date = startOfDay

\* C19: the feed has exactly one entry for every friend and no other entry; a
\* friend with no delivered workout and no calories has the inactive entry:
\* workedOutToday false, totalCalories 0, no muscle groups, no last workout time.
C19_OneEntryPerFriend ==
    /\ Len(feed) = Len(home.friends)
    /\ \A k \in DOMAIN feed :
          \E j \in DOMAIN home.friends : home.friends[j].userID = feed[k].userID
    /\ \A j \in DOMAIN home.friends :
          LET id == home.friends[j].userID
          IN  /\ Cardinality(EntriesOf(id)) = 1
              /\ (DeliveredTo(id) = {} /\ id \notin DOMAIN home.caloriesByUser) =>
                    \A k \in EntriesOf(id) :
                       /\ ~feed[k].workedOutToday
                       /\ feed[k].totalCalories = 0
                       /\ feed[k].muscleGroups = <<>>
                       /\ feed[k].lastWorkoutTime = <<>>

\* two friends, one with a delivered workout and one who has records in
\* neither collection today and shows as inactive with no calories
C19_Witness ==
    /\ Len(home.friends) = 2
    /\ fetches = <<>>
    /\ \E k, m \in DOMAIN feed :
          /\ feed[k].workedOutToday
          /\ ~feed[m].workedOutToday
          /\ feed[m].totalCalories = 0
          /\ feed[m].muscleGroups = <<>>
          /\ feed[m].lastWorkoutTime = <<>>

\* C20: an entry's workedOutToday is true exactly when the delivered workouts
\* hold a record of that friend, whatever its completed flag; every delivered
\* workout is a record of the collection dated within today.
C20_WorkedOutTodayIffWorkout ==
    /\ \A k \in DOMAIN feed :
          feed[k].workedOutToday <=> DeliveredTo(feed[k].userID) # {}
    /\ \A j \in DOMAIN home.workouts :
          /\ home.workouts[j].date >= startOfDay
          /\ home.workouts[j].date <= endOfDay
          /\ home.workouts[j].id \in DOMAIN workoutDocs
          /\ workoutDocs[home.workouts[j].id].userID = home.workouts[j].userID
          /\ workoutDocs[home.workouts[j].id].date = home.workouts[j].date
          /\ workoutDocs[home.workouts[j].id].completed = home.workouts[j].completed

\* a friend shows as active whose only delivered workout is a 'Stats Only'
\* record with completed = false
C20_Witness ==
    \E k \in DOMAIN feed :
       /\ feed[k].workedOutToday
       /\ DeliveredTo(feed[k].userID) # {}
       /\ \A j \in DeliveredTo(feed[k].userID) :
             /\ ~home.workouts[j].completed
             /\ home.workouts[j].muscleGroup = "Stats Only"

\* the sum of the amounts of a user's calorie entries dated today
RECURSIVE SumToday(_, _)
SumToday(userId, k) ==
    IF k = 0 THEN 0
    ELSE SumToday(userId, k - 1)
         + (IF /\ calorieDocs[k].userID = userId
               /\ calorieDocs[k].date >= startOfDay
               /\ calorieDocs[k].date <= endOfDay
               THEN calorieDocs[k].amount ELSE 0)

\* fetch f returns here: the answer to its last batch's query arrives
FetchReturnsHere(f) ==
    /\ f \in DOMAIN fetches
    /\ fetches[f].i + batchSize >= Len(fetches[f].userIds)
    /\ CaloriesGetDocs(f)

\* C21: when the calories fetch of the friends list returns, every entry's
\* totalCalories is the sum of the amounts of that friend's calorie entries
\* dated today, 0 for a friend with no entry today.
C21_TotalCaloriesIsTodaysSum ==
    [][\A f \in 1..Cardinality(Users) :
          FetchReturnsHere(f) =>
             \A k \in DOMAIN feed' :
                feed'[k].totalCalories = SumToday(feed'[k].userID, Len(calorieDocs))]_vars

\* the fetch has returned: one friend has two entries today that add up, the
\* other friend has none and shows 0
C21_Witness ==
    /\ ~home.loading
    /\ fetches = <<>>
    /\ Len(feed) = 2
    /\ \E k, m \in DOMAIN feed :
          /\ feed[k].totalCalories = 200
          /\ SumToday(feed[k].userID, Len(calorieDocs)) = 200
          /\ feed[m].totalCalories = 0

\* the display names in ascending order
NamesAscending == << <<"A", "l">>, <<"B", "o">> >>

NamePlace(n) == CHOOSE k \in DOMAIN NamesAscending : NamesAscending[k] = n

\* the dates of the delivered workouts of a user
DeliveredDates(userId) == {home.workouts[j].date : j \in DeliveredTo(userId)}

\* C22: in the feed every friend who worked out today precedes every friend
\* who did not; friends who worked out are in descending order of their most
\* recent delivered workout's time, one without a time last; friends who did
\* not are in ascending order of their names.
C22_FeedOrder ==
    /\ \A k \in DOMAIN feed :
          feed[k].workedOutToday =>
             /\ feed[k].lastWorkoutTime # <<>>
             /\ feed[k].lastWorkoutTime[1] \in DeliveredDates(feed[k].userID)
             /\ \A t \in DeliveredDates(feed[k].userID) :
                   t <= feed[k].lastWorkoutTime[1]
    /\ \A i, j \in DOMAIN feed :
          i < j =>
             /\ feed[j].workedOutToday => feed[i].workedOutToday
             /\ (feed[i].workedOutToday /\ feed[j].workedOutToday) =>
                   /\ feed[i].lastWorkoutTime = <<>> => feed[j].lastWorkoutTime = <<>>
                   /\ (feed[i].lastWorkoutTime # <<>> /\ feed[j].lastWorkoutTime # <<>>) =>
                         feed[i].lastWorkoutTime[1] >= feed[j].lastWorkoutTime[1]
             /\ (~feed[i].workedOutToday /\ ~feed[j].workedOutToday) =>
                   NamePlace(feed[i].name) <= NamePlace(feed[j].name)

\* the friend listed first worked out at the start of the day, the friend
\* listed second at its end: the feed shows the second friend first
C22_Witness ==
    /\ Len(feed) = 2
    /\ feed[1].workedOutToday /\ feed[2].workedOutToday
    /\ feed[1].lastWorkoutTime = <<endOfDay>>
    /\ feed[2].lastWorkoutTime = <<startOfDay>>
    /\ home.friends[1].userID = feed[2].userID

\* the ids of the friends Home holds
FriendIds == {home.friends[j].userID : j \in DOMAIN home.friends}

\* what one query over all the ids would match: the workouts of today
UnbatchedWorkouts(ids) ==
    {k \in DOMAIN workoutDocs : /\ workoutDocs[k].userID \in ids
                                /\ workoutDocs[k].date >= startOfDay
                                /\ workoutDocs[k].date <= endOfDay}

\* every listener of the subscription has reported
AllBatchesReported ==
    /\ subscription.listeners # <<>>
    /\ \A k \in DOMAIN subscription.listeners :
          \E j \in DOMAIN subscription.workoutBatches :
             subscription.workoutBatches[j].batchIndex
                = subscription.listeners[k].batchIndex

TimesListed(a, b) == Cardinality({k \in DOMAIN friends'[a] : friends'[a][k] = b})

\* C26: whatever an earlier acceptFriendRequest that failed has left written,
\* when a later acceptFriendRequest on the same request succeeds, each of the
\* two users lists the other exactly once and the request is accepted.
C26_AcceptRetryConverges ==
    [][\A c \in Clients :
          (call[c].op = "acceptFriendRequest" /\ SettlesHere(c)
               /\ result'[c].value = "ok")
          => LET r == friendRequests[call[c].req]
             IN  /\ TimesListed(r.fromUserID, r.toUserID) = 1
                 /\ TimesListed(r.toUserID, r.fromUserID) = 1
                 /\ friendRequests'[call[c].req].status = "accepted"]_vars

\* an accept is under way, before its first write, on a pending request whose
\* sender already lists the recipient while the recipient does not list the
\* sender: what an accept that failed at its second write leaves
C26_Witness ==
    /\ pc[Caller] = "accept_addFriend1"
    /\ call[Caller].from # call[Caller].to
    /\ friendRequests[call[Caller].req].status = "pending"
    /\ Includes(friends[call[Caller].from], call[Caller].to)
    /\ ~Includes(friends[call[Caller].to], call[Caller].from)

\* C27: no pending request exists, in either direction, between two users
\* who list each other.
C27_NoPendingBetweenFriends ==
    \A a, b \in Users :
       (a # b /\ Includes(friends[a], b) /\ Includes(friends[b], a))
       => ~HasPending(a, b) /\ ~HasPending(b, a)

\* what the callback was last given for the users of a batch
DeliveredOf(batch) ==
    SelectSeq(home.workouts, LAMBDA w : Includes(batch, w.userID))

\* this step is a snapshot of listener k reaching the callback
SnapshotHere(k) ==
    /\ k \in DOMAIN subscription.listeners
    /\ WorkoutsSnapshot(k)

\* C24: when a snapshot of one batch arrives, the callback is given that
\* batch's records as they are now, each once, and for every other batch what
\* it was given for it before, whichever batch reported first.
C24_MergedByBatchIndex ==
    [][\A k \in 1..Cardinality(Users) :
          SnapshotHere(k) =>
             /\ {DeliveredOf(subscription.listeners[k].batch)'[j].id :
                    j \in DOMAIN DeliveredOf(subscription.listeners[k].batch)'}
                   = UnbatchedWorkouts(Range(subscription.listeners[k].batch))
             /\ Len(DeliveredOf(subscription.listeners[k].batch)')
                   = Cardinality(UnbatchedWorkouts(Range(subscription.listeners[k].batch)))
             /\ \A m \in DOMAIN subscription.listeners :
                   m # k => DeliveredOf(subscription.listeners[m].batch)'
                               = DeliveredOf(subscription.listeners[m].batch)
             /\ Len(home'.workouts)
                   = Len(DeliveredOf(subscription.listeners[k].batch)')
                     + Len(home.workouts)
                     - Len(DeliveredOf(subscription.listeners[k].batch))]_vars

\* the second batch reported before the first, the first batch has reported a
\* record since, and a record of the second batch's user logged after its
\* snapshot is not delivered yet
C24_Witness ==
    /\ Len(subscription.workoutBatches) = 2
    /\ subscription.workoutBatches[1].batchIndex > subscription.workoutBatches[2].batchIndex
    /\ subscription.workoutBatches[2].workouts # <<>>
    /\ subscription.workoutBatches[1].workouts = <<>>
    /\ Len(home.workouts) = 1
    /\ Len(workoutDocs) = 2
    /\ workoutDocs[1].userID # workoutDocs[2].userID

\* the ids of the viewer's friends array that have a user document
ExistingFriends ==
    IF viewerDoc.exists
       THEN {u \in Range(viewerDoc.friends) : userDocs[u].exists}
       ELSE {}

\* list holds the user record of every existing friend, each once, and
\* nothing else
ListsExistingFriends(list) ==
    /\ {list[k].userID : k \in DOMAIN list} = ExistingFriends
    /\ Len(list) = Cardinality(ExistingFriends)
    /\ \A k \in DOMAIN list :
          /\ list[k].name = userDocs[list[k].userID].name
          /\ list[k].friendCode = userDocs[list[k].userID].friendCode

\* C25: the list the friends listener delivers, and the list getUserFriends
\* returns unless the store itself fails, hold the user record of every id
\* of the friends array that has a document, and no other; ids without a
\* document are left out without an error; a missing user and a user without
\* friends give the empty list.
C25_ListFriendsIsTolerant ==
    /\ [](~home.loading => ListsExistingFriends(home.friends))
    /\ [][(listing.pc # "idle" /\ listing'.pc = "idle"
              /\ listing'.result # TransientError)
          => /\ listing'.result = "ok"
             /\ ListsExistingFriends(listing'.value)]_vars

\* the friends array holds two ids, one without a user document: the
\* listener and getUserFriends both gave the one existing friend
C25_Witness ==
    /\ Len(viewerDoc.friends) = 2
    /\ Cardinality(ExistingFriends) = 1
    /\ ~home.loading
    /\ Len(home.friends) = 1
    /\ listing.result = "ok"
    /\ Len(listing.value) = 1
    /\ listing.value[1].userID \in ExistingFriends

\* handler h calls back here: the answer to its last batch's query arrives
HandlerReturnsHere(h) ==
    /\ h \in DOMAIN handlers
    /\ handlers[h].i + batchSize >= Len(handlers[h].friendIds)
    /\ HandlerGetDocs(h)

\* C28: whichever handler of the friends listener calls back, the list it
\* delivers is the list of the latest snapshot: the friends of the viewer's
\* document as it is now.
C28_LastSnapshotWins ==
    [][\A h \in 1..MaxHandlers :
          HandlerReturnsHere(h) => ListsExistingFriends(home.friends)']_vars

\* C29: a calories fetch that returns and sets caloriesByUser was issued for
\* the friends list Home holds now.
C29_StaleFetchNeverOverwrites ==
    [][\A f \in 1..(MaxFetches + MaxHandlers) :
          FetchReturnsHere(f) =>
             fetches[f].userIds = [k \in DOMAIN home.friends |-> home.friends[k].userID]]_vars

\* the ids of the registered listeners' batches, in order
RECURSIVE ListenedIds(_)
ListenedIds(listeners) ==
    IF listeners = <<>> THEN <<>>
    ELSE Head(listeners).batch \o ListenedIds(Tail(listeners))

====
